---------------------------- MODULE Spec2Model ----------------------------
(***************************************************************************)
(* Model of topic_store/database.py: MongoStorage (insert_one, find_one,   *)
(* find, delete_by_id), its nested-dict walker __apply_fn_to_nested_dict   *)
(* with the three leaf functions it is used with, and TopicStoreCursor.    *)
(*                                                                         *)
(* Documents are tagged values [t, v]:                                     *)
(*   "none"   Python None              "scalar" any non-binary scalar      *)
(*   "bin"    bson.binary.Binary, v = the bytes                            *)
(*   "oid"    bson.objectid.ObjectId, v = the GridFS file id               *)
(*   "list"   a list, v = sequence of values                               *)
(*   "map"    a dict, v = function from keys to values                     *)
(* A key is a string, kept as the sequence of its pieces so that           *)
(* str.startswith and str.replace can be computed as Python computes them. *)
(***************************************************************************)
EXTENDS Integers, Sequences, FiniteSets, TLC

VARIABLES collection, fs, nextOid, cursor, last, origin, handlesOf, clean

vars == <<collection, fs, nextOid, cursor, last, origin, handlesOf, clean>>

---------------------------------------------------------------------------
(* Bounds of the model.                                                    *)

\* total number of dict entries (leaves and nested dicts) in the documents of
\* the collection plus the record being inserted
MaxEntries == 2
\* GridFS file ids that can be allocated in one behaviour
MaxBlobs == 2
\* document ids
MaxIds == 2
\* distinct byte strings a binary leaf can hold
MaxBytes == 2

---------------------------------------------------------------------------
(* Strings.                                                                *)

\* the literal "__gridfs_file_" of lines 99, 107, 108, 162, in two pieces
marker ==
    <<"__gridfs", "_file_">>

\* str.startswith
startswith(k, prefix) ==
    /\ Len(k) >= Len(prefix)
    /\ SubSeq(k, 1, Len(prefix)) = prefix

RECURSIVE replace(_, _)
\* str.replace(old, ""): every non-overlapping occurrence, leftmost first
replace(k, old) ==
    IF k = <<>> THEN <<>>
    ELSE IF startswith(k, old) THEN replace(SubSeq(k, Len(old) + 1, Len(k)), old)
    ELSE <<Head(k)>> \o replace(Tail(k), old)

---------------------------------------------------------------------------
(* Values and dicts.                                                       *)

None == [t |-> "none", v |-> 0]
Scalar(n) == [t |-> "scalar", v |-> n]
Binary(b) == [t |-> "bin", v |-> b]
ObjectId(h) == [t |-> "oid", v |-> h]
List(s) == [t |-> "list", v |-> s]
Map(f) == [t |-> "map", v |-> f]

EmptyDict == Map(<<>>)

\* isinstance(v, MappingType)
IsMapping(v) == v.t = "map"

\* d[k] = v
DictSet(d, k, v) ==
    Map([x \in (DOMAIN d.v) \cup {k} |-> IF x = k THEN v ELSE d.v[x]])

\* d.pop(k) (the dict that is left)
DictPop(d, k) ==
    Map([x \in (DOMAIN d.v) \ {k} |-> d.v[x]])

\* len(d)
DictLen(d) == Cardinality(DOMAIN d.v)

---------------------------------------------------------------------------
(* The two stores, as seen through one call: ctx.fs the live GridFS files, *)
(* ctx.next the last file id allocated, ctx.log the store calls made so    *)
(* far by this call, ctx.failAt the put call that fails (0: none).         *)

Ctx(fsv, nxt, failAt) ==
    [fs |-> fsv, next |-> nxt, log |-> <<>>, failAt |-> failAt]

\* number of put calls (failed ones included) in a log
PutCalls(log) ==
    Cardinality({i \in DOMAIN log : log[i][1] \in {"put", "put_failed"}})

\* gridfs.GridFS.put: a fresh file id, or the store's failure
FsPut(ctx, bytes) ==
    IF PutCalls(ctx.log) + 1 = ctx.failAt
    THEN [ctx |-> [ctx EXCEPT !.log = Append(@, <<"put_failed", 0>>)],
          id |-> 0, err |-> "ExternalStoreFailure"]
    ELSE LET h == ctx.next + 1 IN
         [ctx |-> [ctx EXCEPT
                     !.fs = [x \in (DOMAIN @) \cup {h} |-> IF x = h THEN bytes ELSE @[x]],
                     !.next = h,
                     !.log = Append(@, <<"put", h>>)],
          id |-> h, err |-> "ok"]

\* gridfs.GridFS.get(h).read(): the bytes, or NoFile
FsGet(ctx, h) ==
    IF h \in DOMAIN ctx.fs
    THEN [ctx |-> [ctx EXCEPT !.log = Append(@, <<"get", h>>)],
          bytes |-> ctx.fs[h], err |-> "ok"]
    ELSE [ctx |-> [ctx EXCEPT !.log = Append(@, <<"get", h>>)],
          bytes |-> 0, err |-> "NoFile"]

\* gridfs.GridFS.delete: removes the file; deleting a file that does not exist
\* succeeds
FsDelete(ctx, h) ==
    [ctx EXCEPT !.fs = [x \in (DOMAIN @) \ {h} |-> @[x]],
                !.log = Append(@, <<"fs.delete", h>>)]

---------------------------------------------------------------------------
(* The leaf functions.  Each returns the new key, the new value, the       *)
(* stores after its calls, and "ok" or the exception raised.               *)

Leaf(k, v, ctx, err) ==
    [k |-> k, v |-> v, ctx |-> ctx, err |-> err]

\* __gridfs_ify.__grid_fs_binary_objects
grid_fs_binary_objects(k, v, ctx) ==
    IF v.t = "bin"
    THEN LET p == FsPut(ctx, v.v) IN
         IF p.err = "ok" THEN Leaf(marker \o k, ObjectId(p.id), p.ctx, "ok")
                         ELSE Leaf(k, v, p.ctx, p.err)
    ELSE Leaf(k, v, ctx, "ok")

\* __ungridfs_ify.__populate_grid_fs_files
populate_grid_fs_files(k, v, ctx) ==
    IF startswith(k, marker) /\ v.t = "oid"
    THEN LET g == FsGet(ctx, v.v) IN
         IF g.err = "ok" THEN Leaf(replace(k, marker), Binary(g.bytes), g.ctx, "ok")
                         ELSE Leaf(k, v, g.ctx, g.err)
    ELSE Leaf(k, v, ctx, "ok")

\* delete_by_id.__delete_gridfs_docs
delete_gridfs_docs(k, v, ctx) ==
    IF startswith(k, marker) /\ v.t = "oid"
    THEN Leaf(k, v, FsDelete(ctx, v.v), "ok")
    ELSE Leaf(k, v, ctx, "ok")

\* fn(k, v), for the fn passed to the walker
ApplyFn(fn, k, v, ctx) ==
    CASE fn = "grid_fs_binary_objects" -> grid_fs_binary_objects(k, v, ctx)
      [] fn = "populate_grid_fs_files" -> populate_grid_fs_files(k, v, ctx)
      [] fn = "delete_gridfs_docs" -> delete_gridfs_docs(k, v, ctx)

---------------------------------------------------------------------------
(* The walker.  An outcome is [d, ctx, err]: the dict returned (or as it   *)
(* was left when the exception err was raised) and the stores.             *)
(*                                                                         *)
(* At the top level the loop runs over copy(original_dict).  In a          *)
(* recursive call original_dict.get(k, {}) is the very dict v the loop is  *)
(* about to run over (same = TRUE): the loop then runs over the dict it    *)
(* changes.  There, a leaf renamed onto a key the dict already holds makes *)
(* the dict one entry shorter, and the iterator raises RuntimeError        *)
(* ("dictionary changed size during iteration") when asked for its next    *)
(* item; a leaf renamed to a new key keeps the size, and a later visit of  *)
(* the renamed entry changes nothing (its value is no longer one the leaf  *)
(* function acts on), so it is not repeated here.  (A CPython 2 dict is    *)
(* re-hashed, and its iterator can then lose entries, only by an insertion *)
(* that fills two thirds of its table, 6 of the 8 slots of a small dict;   *)
(* a nested dict of this model has fewer than MaxEntries entries and stays *)
(* below that while entries remain to be visited.)  Dict order is not      *)
(* specified: every order of visiting the keys is an outcome.              *)

Outcome(d, ctx, err) ==
    [d |-> d, ctx |-> ctx, err |-> err]

RECURSIVE apply_fn_to_nested_dict(_, _, _, _, _)
RECURSIVE Iterate(_, _, _, _, _, _)
RECURSIVE Visit(_, _, _, _, _, _)

\* one pass of the loop body, lines 85-92, for the item (k, v)
Visit(original_dict, k, v, same, fn, ctx) ==
    IF IsMapping(v)
    THEN LET target == IF original_dict.t = "map" /\ k \in DOMAIN original_dict.v
                       THEN original_dict.v[k] ELSE EmptyDict
             alias == original_dict.t = "map" /\ k \in DOMAIN original_dict.v
                      /\ IsMapping(target)
         IN  IF original_dict.t # "map"
             THEN {Outcome(original_dict, ctx, "AttributeError")}
             ELSE { IF r.err = "ok"
                    THEN Outcome(DictSet(original_dict, k, r.d), r.ctx, "ok")
                    ELSE Outcome(original_dict, r.ctx, r.err)
                    : r \in apply_fn_to_nested_dict(target, v, alias, fn, ctx) }
    ELSE LET f == ApplyFn(fn, k, v, ctx) IN
         IF f.err # "ok" THEN {Outcome(original_dict, f.ctx, f.err)}
         ELSE IF original_dict.t # "map"
         THEN {Outcome(original_dict, f.ctx, "TypeError")}
         ELSE LET assigned == DictSet(original_dict, k, f.v)
                  moved == DictSet(DictPop(assigned, k), f.k, f.v)
              IN  IF same /\ DictLen(moved) # DictLen(original_dict)
                  THEN {Outcome(moved, f.ctx, "RuntimeError")}
                  ELSE {Outcome(moved, f.ctx, "ok")}

\* the for loop of line 84 over the keys not yet visited, in any order
Iterate(original_dict, iter_dict, todo, same, fn, ctx) ==
    IF todo = {} THEN {Outcome(original_dict, ctx, "ok")}
    ELSE UNION { UNION { IF s.err = "ok"
                         THEN Iterate(s.d, iter_dict, todo \ {k}, same, fn, s.ctx)
                         ELSE {s}
                         : s \in Visit(original_dict, k,
                                       IF same THEN original_dict.v[k] ELSE iter_dict.v[k],
                                       same, fn, ctx) }
                 : k \in todo }

\* MongoStorage.__apply_fn_to_nested_dict; iter_dict = None is the top-level call
apply_fn_to_nested_dict(original_dict, iter_dict, same, fn, ctx) ==
    LET it == IF iter_dict = None THEN original_dict ELSE iter_dict IN
    IF it.t # "map" THEN {Outcome(original_dict, ctx, "AttributeError")}
    ELSE Iterate(original_dict, it, DOMAIN it.v, same, fn, ctx)

---------------------------------------------------------------------------
(* The handlers of MongoStorage.  Each returns the set of its outcomes     *)
(* [coll, ctx, status, result]: the collection and the stores after the    *)
(* call, "ok" or the exception the caller sees, and the value returned.    *)

\* MongoDBParser / MongoDBReverseParser (topic_store.data): they re-encode the
\* strings inside leaves, below the grain of this model, and hand None, the
\* dict structure and the keys through
parser(doc) ==
    doc

reverse_parser(doc) ==
    doc

\* collection.find_one({"_id": id}): the document or None
CollFindOne(coll, id) ==
    IF id \in DOMAIN coll THEN coll[id] ELSE None

Result(coll, ctx, status, result) ==
    [coll |-> coll, ctx |-> ctx, status |-> status, result |-> result]

\* MongoStorage.__gridfs_ify
gridfs_ify(topic_store, ctx) ==
    apply_fn_to_nested_dict(parser(topic_store), None, FALSE,
                            "grid_fs_binary_objects", ctx)

\* MongoStorage.__ungridfs_ify
ungridfs_ify(python_dict, ctx) ==
    apply_fn_to_nested_dict(python_dict, None, FALSE,
                            "populate_grid_fs_files", ctx)

\* insert_one with the externalizer's exception swallowed: the dict as the
\* walk left it is inserted
insert_one_swallow(coll, ctx, id, topic_store) ==
    IF topic_store.t # "map" THEN {Result(coll, ctx, "ValueError", None)}
    ELSE { Result([x \in (DOMAIN coll) \cup {id} |-> IF x = id THEN r.d ELSE coll[x]],
                  [r.ctx EXCEPT !.log = Append(@, <<"insert_one", id>>)],
                  "ok", Scalar(id))
           : r \in gridfs_ify(topic_store, ctx) }

\* MongoStorage.insert_one; topic_store = None stands for an argument that is
\* no TopicStore
insert_one(coll, ctx, id, topic_store) ==
    IF topic_store.t # "map" THEN {Result(coll, ctx, "ValueError", None)}
    ELSE { IF r.err = "ok"
           THEN Result([x \in (DOMAIN coll) \cup {id} |-> IF x = id THEN r.d ELSE coll[x]],
                       [r.ctx EXCEPT !.log = Append(@, <<"insert_one", id>>)],
                       "ok", Scalar(id))
           ELSE Result(coll, r.ctx, r.err, None)
           : r \in gridfs_ify(topic_store, ctx) }

\* MongoStorage.find_one (find_by_id passes the query {"_id": id_str})
find_one(coll, ctx, id) ==
    { Result(coll, r.ctx, r.err, IF r.err = "ok" THEN r.d ELSE None)
      : r \in ungridfs_ify(reverse_parser(CollFindOne(coll, id)), ctx) }

\* delete_by_id with the record deleted before its files are
delete_by_id_record_first(coll, ctx, id, failDel) ==
    IF failDel /\ id \in DOMAIN coll
    THEN {Result(coll, [ctx EXCEPT !.log = Append(@, <<"delete_one_failed", id>>)],
                 "ExternalStoreFailure", None)}
    ELSE { IF r.err # "ok" THEN Result(coll, r.ctx, r.err, None)
           ELSE Result([x \in (DOMAIN coll) \ {id} |-> coll[x]],
                       [r.ctx EXCEPT !.log = <<<<"delete_one", id>>>> \o @],
                       "ok", Scalar(Cardinality((DOMAIN coll) \cap {id})))
           : r \in apply_fn_to_nested_dict(reverse_parser(CollFindOne(coll, id)), None,
                                           FALSE, "delete_gridfs_docs", ctx) }

\* MongoStorage.delete_by_id; failDel: collection.delete_one fails
delete_by_id(coll, ctx, id, failDel) ==
    { IF r.err # "ok" THEN Result(coll, r.ctx, r.err, None)
      ELSE IF failDel
      THEN Result(coll, [r.ctx EXCEPT !.log = Append(@, <<"delete_one_failed", id>>)],
                  "ExternalStoreFailure", None)
      ELSE Result([x \in (DOMAIN coll) \ {id} |-> coll[x]],
                  [r.ctx EXCEPT !.log = Append(@, <<"delete_one", id>>)],
                  "ok", Scalar(Cardinality((DOMAIN coll) \cap {id})))
      : r \in apply_fn_to_nested_dict(reverse_parser(CollFindOne(coll, id)), None,
                                      FALSE, "delete_gridfs_docs", ctx) }

---------------------------------------------------------------------------
(* TopicStoreCursor over a pymongo cursor: stream is the result stream of  *)
(* the query, pos the number of its elements already handed out.           *)

NoCursor == [open |-> FALSE, stream |-> <<>>, pos |-> 0]

RECURSIVE SeqOfIds(_, _)
\* the documents of the ids in S, in ascending id order
SeqOfIds(coll, S) ==
    IF S = {} THEN <<>>
    ELSE LET m == CHOOSE x \in S : \A y \in S : x <= y IN
         <<coll[m]>> \o SeqOfIds(coll, S \ {m})

\* MongoStorage.find: TopicStoreCursor(collection.find(...), apply_fn=__ungridfs_ify)
find(coll) ==
    [open |-> TRUE, stream |-> SeqOfIds(coll, DOMAIN coll), pos |-> 0]

CursorResult(cur, ctx, status, result) ==
    [cur |-> cur, ctx |-> ctx, status |-> status, result |-> result]

\* next that returns None from an exhausted stream instead of raising
cursor_next_none(cur, ctx) ==
    IF cur.pos >= Len(cur.stream)
    THEN {CursorResult(cur, ctx, "ok", None)}
    ELSE { CursorResult([cur EXCEPT !.pos = @ + 1], r.ctx, r.err,
                        IF r.err = "ok" THEN r.d ELSE None)
           : r \in ungridfs_ify(reverse_parser(cur.stream[cur.pos + 1]), ctx) }

\* TopicStoreCursor.next: cursor.next() takes the next element of the stream
\* or raises StopIteration; then the parser and apply_fn
cursor_next(cur, ctx) ==
    IF cur.pos >= Len(cur.stream)
    THEN {CursorResult(cur, ctx, "StopIteration", None)}
    ELSE { CursorResult([cur EXCEPT !.pos = @ + 1], r.ctx, r.err,
                        IF r.err = "ok" THEN r.d ELSE None)
           : r \in ungridfs_ify(reverse_parser(cur.stream[cur.pos + 1]), ctx) }

\* TopicStoreCursor.__getitem__: pymongo's cursor[item] runs the query again for
\* that one element and leaves the stream where it is; it refuses once the
\* stream has been pulled from (InvalidOperation), and raises IndexError
\* outside the result
cursor_getitem(cur, ctx, item) ==
    IF cur.pos > 0 THEN {CursorResult(cur, ctx, "InvalidOperation", None)}
    ELSE IF item > Len(cur.stream) THEN {CursorResult(cur, ctx, "IndexError", None)}
    ELSE { CursorResult(cur, r.ctx, r.err, IF r.err = "ok" THEN r.d ELSE None)
           : r \in ungridfs_ify(reverse_parser(cur.stream[item]), ctx) }

---------------------------------------------------------------------------
(* The records a caller can insert.                                        *)

\* keys: a plain key, the same key behind the marker, and a key in which the
\* marker's pieces are interleaved
KeyUniverse ==
    { <<"x">>, marker \o <<"x">>,
      <<"__gridfs", "__gridfs", "_file_", "_file_", "x">> }

\* leaves: a scalar, binary payloads, a list holding a binary payload
LeafValues ==
    {Scalar(1)} \cup {Binary(b) : b \in 1..MaxBytes} \cup {List(<<Binary(1)>>)}

RECURSIVE Entries(_)
\* number of dict entries of a value, nested ones included
Entries(v) ==
    IF v.t # "map" THEN 0
    ELSE LET RECURSIVE Sum(_)
             Sum(S) == IF S = {} THEN 0
                       ELSE LET k == CHOOSE x \in S : TRUE IN
                            1 + Entries(v.v[k]) + Sum(S \ {k})
         IN  Sum(DOMAIN v.v)

RECURSIVE Dicts(_, _)
\* the dicts of nesting depth at most depth with at most n entries in all
Dicts(depth, n) ==
    UNION { UNION { { Map(f) : f \in { g \in [S -> LeafValues \cup
                                              (IF depth > 1 /\ n > Cardinality(S)
                                               THEN Dicts(depth - 1, n - Cardinality(S))
                                               ELSE {})] :
                                        /\ \A k \in S : IsMapping(g[k]) <=> k \in T
                                        /\ Entries(Map(g)) <= n } }
                    : T \in SUBSET S }
            : S \in { X \in SUBSET KeyUniverse : Cardinality(X) <= n } }

\* nesting depth of the records
MaxDepth == 2

Records == Dicts(MaxDepth, MaxEntries)

Ids == 1..MaxIds

RECURSIVE BinLeaves(_)
\* number of binary payloads at leaf position
BinLeaves(v) ==
    IF v.t = "bin" THEN 1
    ELSE IF v.t # "map" THEN 0
    ELSE LET RECURSIVE Sum(_)
             Sum(S) == IF S = {} THEN 0
                       ELSE LET k == CHOOSE x \in S : TRUE IN
                            BinLeaves(v.v[k]) + Sum(S \ {k})
         IN  Sum(DOMAIN v.v)

StoredEntries ==
    LET RECURSIVE Sum(_)
        Sum(S) == IF S = {} THEN 0
                  ELSE LET i == CHOOSE x \in S : TRUE IN
                       Entries(collection[i]) + Sum(S \ {i})
    IN  Sum(DOMAIN collection)

---------------------------------------------------------------------------
(* State.  collection: the documents by _id.  fs: the live GridFS files.   *)
(* nextOid: the last file id allocated.  cursor: the one TopicStoreCursor. *)
(* last: the last call, what it returned and the store calls it made.      *)
(* origin, handlesOf, clean record history: the Record each stored         *)
(* document was inserted as, the file ids put for it, and whether no store *)
(* call has failed so far.                                                 *)

Call(op, id, found, retry, res) ==
    [op |-> op, id |-> id, found |-> found, retry |-> retry,
     status |-> res.status, result |-> res.result, log |-> res.ctx.log]

PutHandles(log) ==
    { log[i][2] : i \in { j \in DOMAIN log : log[j][1] = "put" } }

\* the _id of the next TopicStore: ids are fresh, none is used for two records
NewId ==
    Cardinality(DOMAIN handlesOf) + 1

Init ==
    /\ collection = <<>>
    /\ fs = <<>>
    /\ nextOid = 0
    /\ cursor = NoCursor
    /\ last = [op |-> "init", id |-> 0, found |-> FALSE, retry |-> FALSE,
               status |-> "ok", result |-> None, log |-> <<>>]
    /\ origin = <<>>
    /\ handlesOf = <<>>
    /\ clean = TRUE

InsertOne ==
    \E id \in {NewId}, R \in Records \cup {None} :
      /\ id \in Ids
      /\ StoredEntries + Entries(R) <= MaxEntries
      /\ nextOid + BinLeaves(R) <= MaxBlobs
      /\ \E failAt \in 0..BinLeaves(R) :
         \E res \in insert_one(collection, Ctx(fs, nextOid, failAt), id, R) :
           /\ collection' = res.coll
           /\ fs' = res.ctx.fs
           /\ nextOid' = res.ctx.next
           /\ last' = Call("insert_one", id, FALSE, FALSE, res)
           /\ origin' = IF res.status = "ok"
                        THEN [x \in (DOMAIN origin) \cup {id} |->
                                 IF x = id THEN R ELSE origin[x]]
                        ELSE origin
           /\ handlesOf' = IF res.status = "ok"
                           THEN [x \in (DOMAIN handlesOf) \cup {id} |->
                                    IF x = id THEN PutHandles(res.ctx.log)
                                    ELSE handlesOf[x]]
                           ELSE handlesOf
           /\ clean' = (clean /\ res.status # "ExternalStoreFailure")
           /\ UNCHANGED cursor

FindOne ==
    \E id \in Ids :
      \E res \in find_one(collection, Ctx(fs, nextOid, 0), id) :
        /\ last' = Call("find_one", id, id \in DOMAIN collection, FALSE, res)
        /\ UNCHANGED <<collection, fs, nextOid, cursor, origin, handlesOf, clean>>

DeleteById ==
    \E id \in Ids, failDel \in BOOLEAN :
      \E res \in delete_by_id(collection, Ctx(fs, nextOid, 0), id, failDel) :
        /\ collection' = res.coll
        /\ fs' = res.ctx.fs
        /\ last' = Call("delete_by_id", id, id \in DOMAIN collection,
                        /\ last.op = "delete_by_id"
                        /\ last.id = id
                        /\ last.status = "ExternalStoreFailure",
                        res)
        /\ origin' = [x \in (DOMAIN origin) \cap (DOMAIN res.coll) |-> origin[x]]
        /\ handlesOf' = handlesOf
        /\ clean' = (clean /\ res.status # "ExternalStoreFailure")
        /\ UNCHANGED <<nextOid, cursor>>

Find ==
    /\ ~cursor.open
    /\ cursor' = find(collection)
    /\ last' = [op |-> "find", id |-> 0, found |-> FALSE, retry |-> FALSE,
                status |-> "ok", result |-> None, log |-> <<>>]
    /\ UNCHANGED <<collection, fs, nextOid, origin, handlesOf, clean>>

CursorNext ==
    /\ cursor.open
    /\ \E res \in cursor_next(cursor, Ctx(fs, nextOid, 0)) :
         /\ cursor' = res.cur
         /\ last' = Call("next", cursor.pos + 1, cursor.pos < Len(cursor.stream),
                         FALSE, res)
         /\ UNCHANGED <<collection, fs, nextOid, origin, handlesOf, clean>>

CursorGetItem ==
    /\ cursor.open
    /\ \E item \in 1..(Len(cursor.stream) + 1) :
       \E res \in cursor_getitem(cursor, Ctx(fs, nextOid, 0), item) :
         /\ cursor' = res.cur
         /\ last' = Call("getitem", item, item <= Len(cursor.stream), FALSE, res)
         /\ UNCHANGED <<collection, fs, nextOid, origin, handlesOf, clean>>

Next ==
    \/ InsertOne
    \/ FindOne
    \/ DeleteById
    \/ Find
    \/ CursorNext
    \/ CursorGetItem

Spec == Init /\ [][Next]_vars

---------------------------------------------------------------------------
(* What the claims speak of.                                               *)

RECURSIVE HasBinary(_)
\* a raw binary payload anywhere in a value, inside lists included
HasBinary(v) ==
    CASE v.t = "bin" -> TRUE
      [] v.t = "list" -> \E i \in DOMAIN v.v : HasBinary(v.v[i])
      [] v.t = "map" -> \E k \in DOMAIN v.v : HasBinary(v.v[k])
      [] OTHER -> FALSE

RECURSIVE HasMarkerLeaf(_)
\* a key that starts with the marker, at leaf position
HasMarkerLeaf(v) ==
    /\ v.t = "map"
    /\ \E k \in DOMAIN v.v :
         IF IsMapping(v.v[k]) THEN HasMarkerLeaf(v.v[k]) ELSE startswith(k, marker)

RECURSIVE Refs(_, _)
\* number of marker-prefixed leaves of a document that hold the file id h
Refs(v, h) ==
    IF v.t # "map" THEN 0
    ELSE LET RECURSIVE Sum(_)
             Sum(S) == IF S = {} THEN 0
                       ELSE LET k == CHOOSE x \in S : TRUE IN
                            (IF IsMapping(v.v[k]) THEN Refs(v.v[k], h)
                             ELSE IF startswith(k, marker) /\ v.v[k] = ObjectId(h)
                             THEN 1 ELSE 0)
                            + Sum(S \ {k})
         IN  Sum(DOMAIN v.v)

\* the file ids a stored document refers to
Handles(doc) ==
    { h \in 1..MaxBlobs : Refs(doc, h) > 0 }

\* number of marker-prefixed leaves of the collection that hold the file id h
StoredRefs(h) ==
    LET RECURSIVE Sum(_)
        Sum(S) == IF S = {} THEN 0
                  ELSE LET i == CHOOSE x \in S : TRUE IN
                       Refs(collection[i], h) + Sum(S \ {i})
    IN  Sum(DOMAIN collection)

\* the store calls of a kind in a log
CallsOf(log, kind) ==
    { i \in DOMAIN log : log[i][1] = kind }

Raised(status) ==
    status \in {"AttributeError", "TypeError", "RuntimeError", "ValueError",
                "NoFile", "ExternalStoreFailure"}

---------------------------------------------------------------------------
(* C1: round-trip law.  A Record with binary leaves that was inserted with *)
(* insert_one and is read back with find_by_id, no store call having       *)
(* failed, comes back equal to the Record inserted: same structure, same   *)
(* key names, same bytes.                                                  *)
C1_RoundTrip ==
    (/\ last.op = "find_one"
     /\ last.found
     /\ clean
     /\ BinLeaves(origin[last.id]) > 0)
    => (last.status = "ok" /\ last.result = origin[last.id])

(* C2: no document of the collection holds a raw binary payload, at any    *)
(* depth and in any kind of value.                                         *)
C2_NoBinaryStored ==
    \A id \in DOMAIN collection : ~HasBinary(collection[id])

(* C3: a delete_by_id that finds no record reports "not found" (it returns *)
(* without raising) and makes no blob-store call.                          *)
C3_DeleteAbsentNotFound ==
    (last.op = "delete_by_id" /\ ~last.found)
    => (/\ ~Raised(last.status)
        /\ CallsOf(last.log, "fs.delete") = {})

(* C4: after a delete_by_id of an existing record, no store call having    *)
(* failed, none of the file ids put for that record resolves in the blob   *)
(* store and the record is gone.                                           *)
C4_CascadeComplete ==
    (/\ last.op = "delete_by_id"
     /\ last.found
     /\ clean
     /\ last.status = "ok")
    => (/\ handlesOf[last.id] \cap DOMAIN fs = {}
        /\ last.id \notin DOMAIN collection)

(* C5: find_one with a filter that matches nothing returns None without    *)
(* raising and without a blob-store call; with a filter that matches, what *)
(* it returns is the stored document internalized.                         *)
C5_FindOneAbsent ==
    /\ (last.op = "find_one" /\ ~last.found)
       => (last.status = "ok" /\ last.result = None /\ last.log = <<>>)
    /\ (last.op = "find_one" /\ last.found /\ last.status = "ok")
       => \E r \in ungridfs_ify(collection[last.id], Ctx(fs, nextOid, 0)) :
             r.err = "ok" /\ r.d = last.result

(* C6: when a put fails while insert_one externalizes a record, that put   *)
(* is the last store call of insert_one (no further put, no insert), the   *)
(* failure is what the caller sees, the record is not in the collection,   *)
(* and the files put before it for this record are still in the blob store *)
C6_PutFailureAborts ==
    (last.op = "insert_one" /\ CallsOf(last.log, "put_failed") # {})
    => LET n == Len(last.log) IN
       /\ last.log[n][1] = "put_failed"
       /\ \A i \in 1..(n - 1) : last.log[i][1] = "put" /\ last.log[i][2] \in DOMAIN fs
       /\ last.status = "ExternalStoreFailure"
       /\ last.id \notin DOMAIN collection

\* the put on the second binary leaf failed: one file was put before it
C6_Witness ==
    /\ last.op = "insert_one"
    /\ Len(last.log) = 2
    /\ last.log[1][1] = "put"
    /\ last.log[2][1] = "put_failed"
    /\ last.log[1][2] \in DOMAIN fs

(* C7: a pull from a cursor that has handed out pos of the n elements of   *)
(* its stream: for pos < n it takes exactly the next element and returns   *)
(* what the Internalizer makes of that element (its Record, or the error   *)
(* the Internalizer raises on it); for pos = n it raises StopIteration and *)
(* returns no value.  The stream and the elements handed out never go back *)
C7_CursorPull ==
    [][ /\ cursor.open =>
           (/\ cursor'.open
            /\ cursor'.stream = cursor.stream
            /\ cursor'.pos >= cursor.pos)
        /\ last'.op = "next" =>
           IF cursor.pos < Len(cursor.stream)
           THEN /\ cursor'.pos = cursor.pos + 1
                /\ \E r \in ungridfs_ify(cursor.stream[cursor.pos + 1],
                                         Ctx(fs, nextOid, 0)) :
                      /\ last'.status = r.err
                      /\ last'.result = (IF r.err = "ok" THEN r.d ELSE None)
           ELSE /\ cursor'.pos = cursor.pos
                /\ last'.status = "StopIteration"
                /\ last'.result = None
      ]_vars

\* both elements of a stream of two were pulled, the second one holding a
\* binary leaf again, and a third pull has raised StopIteration
C7_Witness ==
    /\ last.op = "next"
    /\ last.status = "StopIteration"
    /\ cursor.pos = 2
    /\ Len(cursor.stream) = 2
    /\ Handles(cursor.stream[2]) # {}

(* C8: a Record returned by the Internalizer (find_one, the cursor) has no *)
(* key that starts with the marker at leaf position.                       *)
C8_NoMarkerLeaf ==
    (last.op \in {"find_one", "next", "getitem"} /\ last.status = "ok")
    => ~HasMarkerLeaf(last.result)

(* C9: delete_by_id on an existing record calls the blob store's delete    *)
(* for every file id of the record's marker-prefixed leaves, and only then *)
(* calls the document store's delete, once.  When that call fails the      *)
(* record is unchanged in the collection, handles included; when it does   *)
(* not fail (also on a retry after a failure) the record is gone.          *)
C9_BlobDeletesFirst ==
    [][ (last'.op = "delete_by_id" /\ last'.found) =>
          LET log == last'.log
              n == Len(log)
              doc == collection[last'.id]
          IN  /\ n >= 1
              /\ log[n][1] \in {"delete_one", "delete_one_failed"}
              /\ \A i \in 1..(n - 1) : log[i][1] = "fs.delete"
              /\ { log[i][2] : i \in 1..(n - 1) } = Handles(doc)
              /\ Handles(doc) \cap DOMAIN fs' = {}
              /\ log[n][1] = "delete_one_failed" =>
                   (last'.status = "ExternalStoreFailure" /\ collection' = collection)
              /\ log[n][1] = "delete_one" =>
                   (last'.status = "ok" /\ last'.id \notin DOMAIN collection')
      ]_vars

\* a delete_by_id whose record delete failed was retried: the retry found the
\* record, deleted its file again and removed the record
C9_Witness ==
    /\ last.op = "delete_by_id"
    /\ last.retry
    /\ last.found
    /\ last.status = "ok"
    /\ CallsOf(last.log, "fs.delete") # {}
    /\ last.id \notin DOMAIN collection

(* C10: no orphans.  While no store call has failed, every file of the     *)
(* blob store is held by exactly one marker-prefixed leaf of the           *)
(* collection, every file id held by such a leaf is live, an insert_one    *)
(* puts one file per binary leaf of its record and a delete_by_id deletes  *)
(* as many files as were put for its record.                               *)
C10_NoOrphans ==
    clean =>
      /\ \A h \in DOMAIN fs : StoredRefs(h) = 1
      /\ \A id \in DOMAIN collection : Handles(collection[id]) \subseteq DOMAIN fs
      /\ (last.op = "insert_one" /\ last.status = "ok")
         => Cardinality(CallsOf(last.log, "put")) = BinLeaves(origin[last.id])
      /\ (last.op = "delete_by_id" /\ last.found /\ last.status = "ok")
         => Cardinality(CallsOf(last.log, "fs.delete"))
              = Cardinality(handlesOf[last.id])

===========================================================================
